---------------------------- MODULE Spec2Model ----------------------------
(***************************************************************************)
(* Model of src/s3_storage.rs: S3Storage, the adapter that maps logical    *)
(* directory / object names onto the flat key space of one S3 bucket.      *)
(*                                                                         *)
(* Strings are sequences of one-character strings, Option<T> is a sequence *)
(* of length 0 (None) or 1 (Some), IdxResult<T> is a record.               *)
(***************************************************************************)
EXTENDS Integers, Sequences, FiniteSets, TLC

VARIABLES
    ctor,     \* the arguments S3Storage::new was called with
    self,     \* the S3Storage value: [bucket, prefix]
    km,       \* the last call of a key-mapping function and what it returned
    store,    \* the bucket's contents: a function from keys to bytes
    wr,       \* the write_bytes call (a future) and its position
    rd,       \* the read_bytes call (a future) and its position
    lst,      \* the list call (a future) and its position
    listLog   \* the list_objects_v2 exchanges of the list call, in order

vars == <<ctor, self, km, store, wr, rd, lst, listLog>>

-----------------------------------------------------------------------------
(* Bounds *)

\* longest string drawn as an input of the key-mapping functions
MaxLen == 2
\* most pages the simulated client returns for one listing
MaxPages == 2
\* most entries of one simulated page
MaxEntries == 2
\* max-keys of the persisting store: entries per page of its listing
PageSize == 1

-----------------------------------------------------------------------------
(* Strings, Option, IdxResult *)

Sep == "/"
Chars == {"/", "a", "b"}

Str(n) == UNION {[1..k -> Chars] : k \in 0..n}

None == <<>>
Some(x) == <<x>>

Ok(v) == [ok |-> TRUE, val |-> v]
Err(k) == [ok |-> FALSE, kind |-> k]

\* IdxError::storage_error / IdxError::storage_error_msg
StorageError == "StorageError"
\* IdxError::from(std::io::Error), the conversion `?` applies in read_bytes;
\* libindexfn defines it, not this crate
FromIoError == "From<io::Error>"

\* str::ends_with('/')
EndsWithSep(s) == Len(s) > 0 /\ s[Len(s)] = Sep

\* str::strip_prefix: the rest of key after p, or None when key does not start with p
str_strip_prefix(key, p) ==
    IF Len(key) >= Len(p) /\ SubSeq(key, 1, Len(p)) = p
    THEN Some(SubSeq(key, Len(p) + 1, Len(key)))
    ELSE None

-----------------------------------------------------------------------------
(* S3Storage: constructor and key mapping *)

Bucket == "bucket"

New_noSep(bucket, prefix) == [bucket |-> bucket, prefix |-> prefix]

New(bucket, prefix) ==
    [bucket |-> bucket,
     prefix |-> IF ~EndsWithSep(prefix) /\ prefix # <<>>
                THEN Append(prefix, Sep)
                ELSE prefix]

make_prefix_dup(this, dir_name) ==
    LET s == this.prefix \o dir_name
    IN  IF s # <<>> THEN Some(Append(s, Sep)) ELSE None

make_prefix(this, dir_name) ==
    LET s == this.prefix \o dir_name
    IN  IF s # <<>>
        THEN Some(IF ~EndsWithSep(s) THEN Append(s, Sep) ELSE s)
        ELSE None

strip_prefix_cfg(this, dir_name, key) ==
    IF this.prefix # <<>>
    THEN str_strip_prefix(key, this.prefix)
    ELSE Some(key)

strip_prefix(this, dir_name, key) ==
    LET prefix == make_prefix(this, dir_name)
    IN  IF prefix # None
        THEN str_strip_prefix(key, prefix[1])
        ELSE Some(key)

make_key_bare(this, obj_name) == obj_name

make_key(this, obj_name) ==
    IF this.prefix # <<>>
    THEN this.prefix \o obj_name
    ELSE obj_name

-----------------------------------------------------------------------------
(* The key-mapping functions applied to bounded inputs *)

Idle == [pc |-> "idle"]

InitKey ==
    /\ ctor \in [bucket : {Bucket}, prefix : Str(MaxLen)]
    /\ self = New(ctor.bucket, ctor.prefix)
    /\ km = Idle
    /\ store = <<>>
    /\ wr = Idle
    /\ rd = Idle
    /\ lst = Idle
    /\ listLog = <<>>

CallMakePrefix(d) ==
    /\ km.pc = "idle"
    /\ km' = [pc |-> "make_prefix", dir |-> d, out |-> make_prefix(self, d)]
    /\ UNCHANGED <<ctor, self, store, wr, rd, lst, listLog>>

CallMakeKey(n) ==
    /\ km.pc = "idle"
    /\ km' = [pc |-> "make_key", name |-> n, out |-> make_key(self, n)]
    /\ UNCHANGED <<ctor, self, store, wr, rd, lst, listLog>>

CallStripPrefix(d, k) ==
    /\ km.pc = "idle"
    /\ km' = [pc |-> "strip_prefix", dir |-> d, key |-> k,
              out |-> strip_prefix(self, d, k)]
    /\ UNCHANGED <<ctor, self, store, wr, rd, lst, listLog>>

\* strip_prefix on a key built from make_prefix(d) and a suffix
CallRoundTrip(d, s) ==
    /\ km.pc = "idle"
    /\ make_prefix(self, d) # None
    /\ km' = [pc |-> "round_trip", dir |-> d, suffix |-> s,
              key |-> make_prefix(self, d)[1] \o s,
              out |-> strip_prefix(self, d, make_prefix(self, d)[1] \o s)]
    /\ UNCHANGED <<ctor, self, store, wr, rd, lst, listLog>>

NextKey ==
    \/ \E d \in Str(MaxLen) : CallMakePrefix(d)
    \/ \E n \in Str(MaxLen) : CallMakeKey(n)
    \/ \E d \in Str(MaxLen), k \in Str(MaxLen) : CallStripPrefix(d, k)
    \/ \E d \in Str(MaxLen), s \in Str(MaxLen) : CallRoundTrip(d, s)

SpecKey == InitKey /\ [][NextKey]_vars

-----------------------------------------------------------------------------
(* list *)

\* ListObjectsV2Request { bucket, prefix, ..default() }
list_request(this, dir_name) ==
    [bucket |-> this.bucket,
     prefix |-> make_prefix(this, dir_name),
     continuation_token |-> None]

RECURSIVE page_names_skip(_, _, _)
page_names_skip(this, dir_name, objects) ==
    IF objects = <<>>
    THEN Some(<<>>)
    ELSE LET object == Head(objects)
             rest == page_names_skip(this, dir_name, Tail(objects))
             s == strip_prefix(this, dir_name, object.key[1])
         IN  IF object.key # None /\ s # None
             THEN Some(<<s[1]>> \o rest[1])
             ELSE rest

\* `for object in objects`: the names one page adds to rv, in entry order;
\* None when `?` leaves the call because a key cannot be stripped
RECURSIVE page_names(_, _, _)
page_names(this, dir_name, objects) ==
    IF objects = <<>>
    THEN Some(<<>>)
    ELSE LET object == Head(objects)
             rest == page_names(this, dir_name, Tail(objects))
         IN  IF object.key # None
             THEN LET s == strip_prefix(this, dir_name, object.key[1])
                  IN  IF s = None \/ rest = None
                      THEN None
                      ELSE Some(<<s[1]>> \o rest[1])
             ELSE rest

ListDone(l, result) ==
    [pc |-> "done", dir |-> l.dir, after_write |-> l.after_write, result |-> result]

on_list_error_partial(l) == ListDone(l, Ok(l.rv))

\* `.map_err(IdxError::storage_error)?` and `.ok_or(IdxError::storage_error_msg(..))?`
on_list_error(l) == ListDone(l, Err(StorageError))

list_page_last(this, l, listing) ==
    LET names == IF listing.contents # None
                 THEN page_names(this, l.dir, listing.contents[1])
                 ELSE Some(<<>>)
    IN  IF names = None
        THEN on_list_error(l)
        ELSE IF listing.next_continuation_token # None
        THEN [l EXCEPT !.rv = names[1],
                       !.req.continuation_token = listing.next_continuation_token]
        ELSE ListDone(l, Ok(names[1]))

\* one turn of the loop, after list_objects_v2 answered with `listing`
list_page(this, l, listing) ==
    LET names == IF listing.contents # None
                 THEN page_names(this, l.dir, listing.contents[1])
                 ELSE Some(<<>>)
    IN  IF names = None
        THEN on_list_error(l)
        ELSE IF listing.next_continuation_token # None
        THEN [l EXCEPT !.rv = @ \o names[1],
                       !.req.continuation_token = listing.next_continuation_token]
        ELSE ListDone(l, Ok(l.rv \o names[1]))

\* after_write is a history field, not a local of list: whether write_bytes
\* had already returned Ok when list was called
ListCall(d) ==
    /\ lst.pc = "idle"
    /\ lst' = [pc |-> "page", dir |-> d,
               after_write |-> (wr.pc = "done" /\ wr.result.ok),
               req |-> list_request(self, d), rv |-> <<>>]
    /\ UNCHANGED <<ctor, self, km, store, wr, rd, listLog>>

\* list_objects_v2(req.clone()).await answers with resp
ListPage(resp) ==
    /\ lst.pc = "page"
    /\ listLog' = Append(listLog, [req |-> lst.req, resp |-> resp])
    /\ lst' = IF resp.ok THEN list_page(self, lst, resp.val) ELSE on_list_error(lst)
    /\ UNCHANGED <<ctor, self, km, store, wr, rd>>

-----------------------------------------------------------------------------
(* list against a simulated client that answers with any pages *)

PrefixInputs == {<<>>, <<"p">>, <<"p", "/">>, <<"p", "/", "/">>}
Dirs == {<<>>, <<"d">>, <<"d", "/">>}
Leaves == {<<"a">>, <<"b">>}

\* keys a simulated page may carry: two inside the requested prefix, one outside
SimKeys(req) ==
    LET p == IF req.prefix # None THEN req.prefix[1] ELSE <<>>
    IN  {p \o n : n \in Leaves} \cup {<<"x">>}

SimObjects(req) ==
    LET objs == {[key |-> None]} \cup {[key |-> Some(k)] : k \in SimKeys(req)}
    IN  UNION {[1..n -> objs] : n \in 0..MaxEntries}

\* the answers of the simulated client to the next request: a failure, or a
\* page with or without contents; a token only while pages remain
SimListResponses(req) ==
    {Err("RusotoError")} \cup
    {Ok([contents |-> c, next_continuation_token |-> t]) :
        c \in {None} \cup {Some(o) : o \in SimObjects(req)},
        t \in IF Len(listLog) + 1 < MaxPages
               THEN {None, Some(Len(listLog) + 1)}
               ELSE {None}}

InitList ==
    /\ ctor \in [bucket : {Bucket}, prefix : {<<>>, <<"p">>}]
    /\ self = New(ctor.bucket, ctor.prefix)
    /\ km = Idle
    /\ store = <<>>
    /\ wr = Idle
    /\ rd = Idle
    /\ lst = Idle
    /\ listLog = <<>>

ListPageSim ==
    /\ lst.pc = "page"
    /\ \E resp \in SimListResponses(lst.req) : ListPage(resp)

NextList ==
    \/ \E d \in {<<>>, <<"d">>} : ListCall(d)
    \/ ListPageSim

SpecList == InitList /\ [][NextList]_vars

-----------------------------------------------------------------------------
(* write_bytes *)

Unit == "()"

write_request_prefix(this, name, data) ==
    [bucket |-> this.bucket, key |-> this.prefix, body |-> Some(data)]

\* PutObjectRequest { bucket, key: make_key(name), body: Some(strm), ..default() }
write_request(this, name, data) ==
    [bucket |-> this.bucket, key |-> make_key(this, name), body |-> Some(data)]

WriteCall(n, data) ==
    /\ wr.pc = "idle"
    /\ wr' = [pc |-> "put", name |-> n, data |-> data,
              req |-> write_request(self, n, data)]
    /\ UNCHANGED <<ctor, self, km, store, rd, lst, listLog>>

WriteDone(w, result) ==
    [pc |-> "done", name |-> w.name, data |-> w.data, req |-> w.req,
     result |-> result]

-----------------------------------------------------------------------------
(* read_bytes *)

\* GetObjectRequest { bucket, key: make_key(obj_name), ..default() }
read_request(this, obj_name) ==
    [bucket |-> this.bucket, key |-> make_key(this, obj_name)]

ReadCall(n) ==
    /\ rd.pc = "idle"
    /\ rd' = [pc |-> "get", name |-> n, req |-> read_request(self, n)]
    /\ UNCHANGED <<ctor, self, km, store, wr, lst, listLog>>

ReadDone(r, resp, result) ==
    [pc |-> "done", name |-> r.name, req |-> r.req, resp |-> resp,
     result |-> result]

read_response_empty(r, resp) ==
    IF ~resp.ok
    THEN ReadDone(r, resp, Err(StorageError))
    ELSE IF resp.val.body # None
    THEN [pc |-> "drain", name |-> r.name, req |-> r.req, resp |-> resp,
          strm |-> resp.val.body[1]]
    ELSE ReadDone(r, resp, Ok(<<>>))

\* get_object(req).await answered with resp: `?` on a failure, then `if let
\* Some(strm) = resp.body`
read_response(r, resp) ==
    IF ~resp.ok
    THEN ReadDone(r, resp, Err(StorageError))
    ELSE IF resp.val.body # None
    THEN [pc |-> "drain", name |-> r.name, req |-> r.req, resp |-> resp,
          strm |-> resp.val.body[1]]
    ELSE ReadDone(r, resp, Err(StorageError))

\* read_to_end(&mut contents).await? : every byte of the stream, or the
\* io::Error converted by `?`
read_drained(r, io_ok) ==
    ReadDone(r, r.resp, IF io_ok THEN Ok(r.strm) ELSE Err(FromIoError))

-----------------------------------------------------------------------------
(* The bucket behind the client: it persists what is put, and lists, in key *)
(* order and PageSize keys at a time, every key that starts with the        *)
(* requested prefix.                                                        *)

EmptyStore == [k \in {} |-> <<>>]

CharCode(c) ==
    CASE c = "/" -> 47 [] c = "a" -> 97 [] c = "b" -> 98
      [] c = "d" -> 100 [] c = "p" -> 112 [] c = "x" -> 120

RECURSIVE KeyLess(_, _)
KeyLess(k1, k2) ==
    IF k1 = <<>> THEN k2 # <<>>
    ELSE IF k2 = <<>> THEN FALSE
    ELSE IF Head(k1) = Head(k2) THEN KeyLess(Tail(k1), Tail(k2))
    ELSE CharCode(Head(k1)) < CharCode(Head(k2))

RECURSIVE SortKeys(_)
SortKeys(ks) ==
    IF ks = {} THEN <<>>
    ELSE LET m == CHOOSE k \in ks : \A o \in ks \ {k} : KeyLess(k, o)
         IN  <<m>> \o SortKeys(ks \ {m})

StorePut(st, req) ==
    [k \in DOMAIN st \cup {req.key} |-> IF k = req.key THEN req.body[1] ELSE st[k]]

StoreGetResponses(st, req) ==
    {Err("RusotoError"), Ok([body |-> None])} \cup
    {Ok([body |-> Some(st[k])]) : k \in DOMAIN st \cap {req.key}}

StoreListing(st, req) ==
    LET match == {k \in DOMAIN st :
                    /\ req.prefix # None => str_strip_prefix(k, req.prefix[1]) # None
                    /\ req.continuation_token # None =>
                           KeyLess(req.continuation_token[1], k)}
        keys == SortKeys(match)
        n == IF Len(keys) < PageSize THEN Len(keys) ELSE PageSize
    IN  [contents |-> IF n = 0 THEN None
                      ELSE Some([i \in 1..n |-> [key |-> Some(keys[i])]]),
         next_continuation_token |-> IF Len(keys) > n THEN Some(keys[n]) ELSE None]

StoreListResponses(st, req) == {Err("RusotoError"), Ok(StoreListing(st, req))}

-----------------------------------------------------------------------------
(* list, read_bytes and write_bytes, each called once on one adapter, in     *)
(* any interleaving, against the persisting bucket                           *)

ObjNames == {d \o <<Sep>> \o n : d \in Dirs, n \in Leaves}
Datas == {<<>>, <<1, 2>>}

InitStores(this) ==
    {EmptyStore,
     StorePut(EmptyStore, [bucket |-> this.bucket,
                           key |-> make_key(this, <<"d", "/", "b">>),
                           body |-> Some(<<3>>)])}

Init ==
    /\ ctor \in [bucket : {Bucket}, prefix : PrefixInputs]
    /\ self = New(ctor.bucket, ctor.prefix)
    /\ km = Idle
    /\ store \in InitStores(self)
    /\ wr = Idle
    /\ rd = Idle
    /\ lst = Idle
    /\ listLog = <<>>

\* put_object(req).await returns Ok
PutOk ==
    /\ wr.pc = "put"
    /\ store' = StorePut(store, wr.req)
    /\ wr' = WriteDone(wr, Ok(Unit))
    /\ UNCHANGED <<ctor, self, km, rd, lst, listLog>>

\* put_object(req).await returns Err: the request or its answer was lost
PutFail(persisted) ==
    /\ wr.pc = "put"
    /\ store' = IF persisted THEN StorePut(store, wr.req) ELSE store
    /\ wr' = WriteDone(wr, Err(StorageError))
    /\ UNCHANGED <<ctor, self, km, rd, lst, listLog>>

GetResponse ==
    /\ rd.pc = "get"
    /\ \E resp \in StoreGetResponses(store, rd.req) : rd' = read_response(rd, resp)
    /\ UNCHANGED <<ctor, self, km, store, wr, lst, listLog>>

Drain(io_ok) ==
    /\ rd.pc = "drain"
    /\ rd' = read_drained(rd, io_ok)
    /\ UNCHANGED <<ctor, self, km, store, wr, lst, listLog>>

ListPageStore ==
    /\ lst.pc = "page"
    /\ \E resp \in StoreListResponses(store, lst.req) : ListPage(resp)

Next ==
    \/ \E n \in ObjNames, data \in Datas : WriteCall(n, data)
    \/ PutOk
    \/ \E persisted \in BOOLEAN : PutFail(persisted)
    \/ \E n \in ObjNames : ReadCall(n)
    \/ GetResponse
    \/ \E io_ok \in BOOLEAN : Drain(io_ok)
    \/ \E d \in Dirs : ListCall(d)
    \/ ListPageStore

Spec == Init /\ [][Next]_vars

-----------------------------------------------------------------------------
(* Properties *)

Range(f) == {f[i] : i \in DOMAIN f}

EndsWithTwoSep(s) == Len(s) >= 2 /\ s[Len(s)] = Sep /\ s[Len(s) - 1] = Sep
ExactlyOneSep(s) == EndsWithSep(s) /\ ~EndsWithTwoSep(s)

\* Some(n) when name is d + "/" + n, None otherwise
LeafOf(name, d) ==
    IF /\ Len(name) > Len(d)
       /\ SubSeq(name, 1, Len(d)) = d
       /\ name[Len(d) + 1] = Sep
    THEN Some(SubSeq(name, Len(d) + 2, Len(name)))
    ELSE None

ListedAfterWrite ==
    /\ lst.pc = "done" /\ lst.result.ok
    /\ lst.after_write
    /\ LeafOf(wr.name, lst.dir) # None

\* C1 as claimed: for every directory name d and leaf n, once
\* write_bytes(d + "/" + n) has succeeded, a successful list(d) called
\* afterwards against the persisting bucket returns n.
C1_AsClaimed ==
    ListedAfterWrite => LeafOf(wr.name, lst.dir)[1] \in Range(lst.result.val)

\* C1 amended: the same, for directory names d that are not empty and do not
\* end with '/'.
C1_WriteThenList ==
    (ListedAfterWrite /\ lst.dir # <<>> /\ ~EndsWithSep(lst.dir))
        => LeafOf(wr.name, lst.dir)[1] \in Range(lst.result.val)

C1_Witness ==
    /\ ListedAfterWrite
    /\ ctor.prefix = <<"p">>
    /\ lst.dir = <<"d">>
    /\ wr.name = <<"d", "/", "a">>
    /\ Len(listLog) = 2
    /\ lst.result.val = <<<<"a">>, <<"b">>>>

-----------------------------------------------------------------------------

LogOk == \A i \in DOMAIN listLog : listLog[i].resp.ok

LogObjects(i) ==
    IF listLog[i].resp.ok /\ listLog[i].resp.val.contents # None
    THEN listLog[i].resp.val.contents[1]
    ELSE <<>>

\* the keys the client returned for the call, over all its pages
LogKeys ==
    {o.key[1] : o \in {e \in UNION {Range(LogObjects(i)) : i \in DOMAIN listLog} :
                          e.key # None}}

ListPrefix == make_prefix(self, lst.dir)

InScope(k) ==
    \/ ListPrefix = None
    \/ /\ Len(k) >= Len(ListPrefix[1])
       /\ SubSeq(k, 1, Len(ListPrefix[1])) = ListPrefix[1]

Stripped(k) ==
    IF ListPrefix = None THEN k ELSE SubSeq(k, Len(ListPrefix[1]) + 1, Len(k))

RECURSIVE KeyedNames(_)
KeyedNames(objs) ==
    IF objs = <<>> THEN <<>>
    ELSE (IF Head(objs).key # None THEN <<Stripped(Head(objs).key[1])>> ELSE <<>>)
         \o KeyedNames(Tail(objs))

RECURSIVE AllNames(_)
AllNames(i) == IF i = 0 THEN <<>> ELSE AllNames(i - 1) \o KeyedNames(LogObjects(i))

\* one request per page: the first without a token, each later one with the
\* token of the answer before it, and only the last answer without a token
TokenChain ==
    /\ listLog # <<>>
    /\ \A i \in DOMAIN listLog :
          /\ listLog[i].req.bucket = self.bucket
          /\ listLog[i].req.prefix = ListPrefix
          /\ listLog[i].req.continuation_token =
                 IF i = 1 THEN None
                 ELSE listLog[i - 1].resp.val.next_continuation_token
          /\ (listLog[i].resp.val.next_continuation_token = None) <=> (i = Len(listLog))

PagesReturned ==
    /\ TokenChain
    /\ lst.result = Ok(AllNames(Len(listLog)))

\* C2 as claimed: when every page request of a finished list succeeds, list
\* issued one request per page, chained by the tokens, and returns the
\* stripped names of all keyed entries in page and entry order.
C2_AsClaimed == (lst.pc = "done" /\ LogOk) => PagesReturned

\* C2 amended: the same, when moreover every key the pages carry starts with
\* make_prefix(d).
C2_PaginatedListing ==
    (lst.pc = "done" /\ LogOk /\ \A k \in LogKeys : InScope(k)) => PagesReturned

C2_Witness ==
    /\ lst.pc = "done" /\ LogOk
    /\ ListPrefix # None
    /\ Len(listLog) = 2
    /\ Len(LogObjects(1)) = 2 /\ Len(LogObjects(2)) = 2
    /\ \E o \in Range(LogObjects(1)) : o.key = None
    /\ lst.result.ok /\ Len(lst.result.val) = 3
    /\ lst.result.val[1] # lst.result.val[2]

\* C3: a failed page request is the last request of the call, and the call
\* returns StorageError, with none of the names of the pages before it.
C3_ListFailFast ==
    \A i \in DOMAIN listLog :
        ~listLog[i].resp.ok =>
            /\ i = Len(listLog)
            /\ lst.pc = "done"
            /\ lst.result = Err(StorageError)

C3_Witness ==
    /\ Len(listLog) = 2
    /\ ~listLog[2].resp.ok
    /\ KeyedNames(LogObjects(1)) # <<>>
    /\ lst.pc = "done"
    /\ lst.result = Err(StorageError)

\* C5: a page entry whose key does not start with make_prefix(d) ends the
\* call with StorageError; and every name s a successful list(d) returns
\* under a prefix is the rest of a returned key make_prefix(d) + s.
C5_ScopeViolationFatal ==
    /\ (\E k \in LogKeys : ~InScope(k)) =>
           (lst.pc = "done" /\ lst.result = Err(StorageError))
    /\ (lst.pc = "done" /\ lst.result.ok /\ ListPrefix # None) =>
           \A s \in Range(lst.result.val) : (ListPrefix[1] \o s) \in LogKeys

C5_Witness ==
    /\ LogOk
    /\ Len(listLog) = 2
    /\ ListPrefix # None
    /\ KeyedNames(LogObjects(1)) # <<>>
    /\ \A k \in LogKeys : InScope(k) <=> k # <<"x">>
    /\ <<"x">> \in LogKeys
    /\ lst.result = Err(StorageError)

-----------------------------------------------------------------------------

ReadAnswered == rd.pc = "done" /\ rd.resp.ok

\* C6 as claimed: a get-object answer without a body makes read_bytes return
\* StorageError, and an answer with a body makes it return the whole body.
C6_AsClaimed ==
    ReadAnswered =>
        IF rd.resp.val.body = None
        THEN rd.result = Err(StorageError)
        ELSE rd.result = Ok(rd.resp.val.body[1])

\* C6 amended: a get-object answer without a body makes read_bytes return
\* StorageError; an answer with a body makes it return the whole body, or,
\* when draining the body fails, the converted I/O error.
C6_ReadBody ==
    ReadAnswered =>
        IF rd.resp.val.body = None
        THEN rd.result = Err(StorageError)
        ELSE rd.result \in {Ok(rd.resp.val.body[1]), Err(FromIoError)}

C6_Witness ==
    /\ ReadAnswered
    /\ rd.resp.val.body = None
    /\ rd.req.key \in DOMAIN store
    /\ rd.result = Err(StorageError)

-----------------------------------------------------------------------------

MadePrefix == km.pc = "make_prefix" /\ ctor.prefix # <<>>

\* C7 as claimed: under a non-empty configured prefix, make_prefix(d) is a
\* string that ends with exactly one '/', for every d; and make_prefix is
\* None only when prefix + d is empty.
C7_AsClaimed ==
    /\ MadePrefix => (km.out # None /\ ExactlyOneSep(km.out[1]))
    /\ (km.pc = "make_prefix" /\ km.out = None) => self.prefix \o km.dir = <<>>

\* C7 amended: under a non-empty configured prefix, make_prefix(d) is a
\* string that ends with '/', and with exactly one '/' unless the stored
\* prefix + d itself ends with two or more; and make_prefix is None only
\* when prefix + d is empty.
C7_MakePrefixSeparator ==
    /\ MadePrefix =>
          /\ km.out # None
          /\ EndsWithSep(km.out[1])
          /\ ~EndsWithTwoSep(self.prefix \o km.dir) => ExactlyOneSep(km.out[1])
    /\ (km.pc = "make_prefix" /\ km.out = None) => self.prefix \o km.dir = <<>>

C7_Witness ==
    /\ MadePrefix
    /\ ctor.prefix = <<"a">>
    /\ km.dir = <<"b", "/">>
    /\ km.out = Some(<<"a", "/", "b", "/">>)

-----------------------------------------------------------------------------

CallsFinished == wr.pc = "done" /\ rd.pc = "done" /\ lst.pc = "done"

\* C8 as claimed: the stored prefix is empty or ends with exactly one '/',
\* whatever prefix the constructor was given, and no step of a list,
\* read_bytes or write_bytes call changes the stored bucket or prefix.
C8_AsClaimed ==
    /\ [](self.prefix = <<>> \/ ExactlyOneSep(self.prefix))
    /\ [][self' = self]_vars

\* C8 amended: the stored prefix is empty or ends with '/', and with exactly
\* one '/' unless the prefix given to the constructor ends with two or more;
\* and no step of a list, read_bytes or write_bytes call changes the stored
\* bucket or prefix.
C8_HandleInvariant ==
    /\ [](/\ self.bucket = ctor.bucket
          /\ self.prefix = <<>> \/ EndsWithSep(self.prefix)
          /\ ~EndsWithTwoSep(ctor.prefix) =>
                 (self.prefix = <<>> \/ ExactlyOneSep(self.prefix)))
    /\ [][self' = self]_vars

C8_Witness ==
    /\ ctor.prefix = <<"p">>
    /\ self.prefix = <<"p", "/">>
    /\ CallsFinished
    /\ wr.result.ok /\ ~rd.result.ok

-----------------------------------------------------------------------------

\* C9: strip_prefix(d, make_prefix(d) + s) is Some(s) for every prefix, d and
\* s; and with an empty prefix and an empty d strip_prefix(d, k) is Some(k).
C9_RoundTrip ==
    /\ km.pc = "round_trip" => km.out = Some(km.suffix)
    /\ (km.pc = "strip_prefix" /\ self.prefix = <<>> /\ km.dir = <<>>) =>
           km.out = Some(km.key)

C9_Witness ==
    /\ km.pc = "round_trip"
    /\ ctor.prefix = <<"a">>
    /\ km.dir = <<"b">>
    /\ km.suffix = <<"/", "a">>
    /\ km.key = <<"a", "/", "b", "/", "/", "a">>
    /\ km.out = Some(<<"/", "a">>)

-----------------------------------------------------------------------------

\* the key of a logical name: the stored prefix, then the name
KeyOf(name) == self.prefix \o name

BothCalled == rd.pc # "idle" /\ wr.pc # "idle" /\ rd.name # wr.name

\* C10: a read_bytes and a write_bytes call on different keys, interleaved
\* in any way: the read returns what the bucket holds under its own key, the
\* write stores its data under its own key, and a step changes the bucket at
\* no key but that of the write.
C10_NonInterference ==
    /\ [](BothCalled =>
            /\ rd.req.key = KeyOf(rd.name)
            /\ wr.req = [bucket |-> self.bucket, key |-> KeyOf(wr.name),
                         body |-> Some(wr.data)]
            /\ (rd.pc = "done" /\ rd.result.ok) =>
                   /\ KeyOf(rd.name) \in DOMAIN store
                   /\ rd.result.val = store[KeyOf(rd.name)]
            /\ (wr.pc = "done" /\ wr.result.ok) =>
                   /\ KeyOf(wr.name) \in DOMAIN store
                   /\ store[KeyOf(wr.name)] = wr.data)
    /\ [][store' # store =>
            /\ wr.pc = "put"
            /\ DOMAIN store' = DOMAIN store \cup {KeyOf(wr.name)}
            /\ \A k \in DOMAIN store \ {KeyOf(wr.name)} : store'[k] = store[k]]_vars

C10_Witness ==
    /\ BothCalled
    /\ rd.pc = "done" /\ rd.result = Ok(<<3>>)
    /\ wr.pc = "done" /\ wr.result.ok
    /\ wr.data = <<1, 2>>
    /\ store[KeyOf(wr.name)] = <<1, 2>>
    /\ store[KeyOf(rd.name)] = <<3>>

=============================================================================
